---- MODULE Spec2Model ----
(***************************************************************************)
(* DC optimal power flow and LMP calculation (src/func.py, class           *)
(* DCPowerFlow) over the network container of src/data.py (class           *)
(* NetworkData).                                                           *)
(*                                                                         *)
(* Units.  Every quantity of the program is a float; the model computes    *)
(* in exact rational arithmetic over integers:                             *)
(*   power (MW), cost (EUR/MWh)  : integers, 1 = 1 MW, 1 = 1 EUR/MWh       *)
(*   length                      : integers, 1 = 0.1 km                    *)
(*   reactance                   : integers, 1 = 0.0001 p.u.               *)
(* so that the floor 0.1 km is 1 and length * 0.001 p.u./km is length * 1. *)
(* Values computed by the solver are rationals [n |-> num, d |-> den],     *)
(* den > 0, in lowest terms.  Python lists are 0-based, sequences here     *)
(* are 1-based: the slack bus nodes[0] is nodes[1].                        *)
(***************************************************************************)
EXTENDS Integers, Sequences, FiniteSets, TLC

\* nodes, lines, generation, consumption : the fields of NetworkData
\* updates : the number of inputs made so far (mutator calls, edited entries)
\* outcome : "none" before the first solve(), then "returned" or "raised"
\* result  : what the last solve() returned (a dict) or raised
\* solved  : the network the last solve() ran on and what the LP backend answered
\* fields  : the content of the entries of the GUI (the tk.DoubleVar of each)
\* display : the status the application shows: the status pill of LMPApp
\*           (src/main.py), the status text of LMPAppV2 (src/main_v2.py)
\* position: where the callback _update_model stands: "idle" when it is not
\*           running, "solve" when it has made its mutator calls and calls solve()
\* app     : the application that runs, "LMPApp" or "LMPAppV2"; "none" when
\*           NetworkData and DCPowerFlow are used without an application
\* app_param : self.param of the application, the parameter set it was made with
\* section_states : for LMPAppV2, whether each section of entries is open
VARIABLES nodes, lines, generation, consumption, updates, outcome, result, solved,
          fields, display, position, app, app_param, section_states

vars == <<nodes, lines, generation, consumption, updates, outcome, result, solved,
          fields, display, position, app, app_param, section_states>>

(***************************************************************************)
(* Bounds of the model.                                                    *)
(***************************************************************************)
MaxUpdates == 1

\* the number of entries the user edits
MaxEdits == 2

\* arguments the mutators are called with (any sign: the GUI passes floats)
CapacityArgs == {-10, 20}
LengthArgs == {-1000, 0, 2000}
GenCapArgs == {0, 200}
GenCostArgs == {-5, 30}
ConsumptionArgs == {-50, 100}

\* node identifiers that are not nodes of any network
UnknownNodes == {"Z"}

(***************************************************************************)
(* Integer and rational arithmetic.                                        *)
(***************************************************************************)
Abs(x) == IF x < 0 THEN -x ELSE x

Max(a, b) == IF b > a THEN b ELSE a

RECURSIVE Gcd(_, _)
Gcd(a, b) == IF b = 0 THEN Abs(a) ELSE Gcd(b, a % Abs(b))

Lcm(a, b) == IF a = 0 \/ b = 0 THEN 0 ELSE (Abs(a) \div Gcd(a, b)) * Abs(b)

\* the sequence s as an explicit tuple (its elements computed once)
Tuple(s) == s \o <<>>

RECURSIVE SeqSum(_)
SeqSum(s) == IF s = <<>> THEN 0 ELSE Head(s) + SeqSum(Tail(s))

RECURSIVE SeqGcd(_)
SeqGcd(s) == IF s = <<>> THEN 0 ELSE Gcd(Head(s), SeqGcd(Tail(s)))

RECURSIVE SeqLcm(_)
SeqLcm(s) == IF s = <<>> THEN 1 ELSE Lcm(Head(s), SeqLcm(Tail(s)))

Dot(u, v) == SeqSum(Tuple([k \in 1..Len(u) |-> u[k] * v[k]]))

\* the rational num/den in lowest terms with a positive denominator
Rat(num, den) ==
    LET g == Gcd(num, den)
        s == IF den < 0 THEN -1 ELSE 1
    IN  [n |-> s * (num \div g), d |-> s * (den \div g)]

RInt(k) == [n |-> k, d |-> 1]

RZero == RInt(0)

RAdd(p, q) == Rat(p.n * q.d + q.n * p.d, p.d * q.d)

RSub(p, q) == Rat(p.n * q.d - q.n * p.d, p.d * q.d)

RMul(p, q) ==
    LET g1 == Gcd(p.n, q.d)
        g2 == Gcd(q.n, p.d)
    IN  [n |-> (p.n \div g1) * (q.n \div g2), d |-> (p.d \div g2) * (q.d \div g1)]

RAbs(p) == [n |-> Abs(p.n), d |-> p.d]

RLeq(p, q) == p.n * q.d <= q.n * p.d

RLess(p, q) == p.n * q.d < q.n * p.d

RECURSIVE RSeqSum(_)
RSeqSum(s) == IF s = <<>> THEN RZero ELSE RAdd(Head(s), RSeqSum(Tail(s)))

\* sum of the values of a dict (function) with integer values
RECURSIVE DictSum(_, _)
DictSum(f, keys) ==
    IF keys = {} THEN 0
    ELSE LET k == CHOOSE x \in keys : TRUE
         IN  f[k] + DictSum(f, keys \ {k})

\* sum of the values of a dict with rational values
RECURSIVE RDictSum(_, _)
RDictSum(f, keys) ==
    IF keys = {} THEN RZero
    ELSE LET k == CHOOSE x \in keys : TRUE
         IN  RAdd(f[k], RDictSum(f, keys \ {k}))

(***************************************************************************)
(* Integer matrices (sequences of rows) and determinants.                  *)
(***************************************************************************)
DropAt(s, k) == Tuple([m \in 1..(Len(s) - 1) |-> IF m < k THEN s[m] ELSE s[m + 1]])

Minor(M, i, j) == Tuple([r \in 1..(Len(M) - 1) |-> DropAt(DropAt(M, i)[r], j)])

RECURSIVE Det(_)
Det(M) ==
    IF Len(M) = 0 THEN 1
    ELSE IF Len(M) = 1 THEN M[1][1]
    ELSE IF Len(M) = 2 THEN M[1][1] * M[2][2] - M[1][2] * M[2][1]
    ELSE IF Len(M) = 3
    THEN M[1][1] * (M[2][2] * M[3][3] - M[2][3] * M[3][2])
       - M[1][2] * (M[2][1] * M[3][3] - M[2][3] * M[3][1])
       + M[1][3] * (M[2][1] * M[3][2] - M[2][2] * M[3][1])
    ELSE SeqSum(Tuple([j \in 1..Len(M) |->
                    (IF j % 2 = 1 THEN 1 ELSE -1) * M[1][j] * Det(Minor(M, 1, j))]))

\* adjugate: Adj(M)[i][j] = cofactor of M[j][i], so that M * Adj(M) = Det(M) * I
Adj(M) ==
    Tuple([i \in 1..Len(M) |-> Tuple([j \in 1..Len(M) |->
        (IF (i + j) % 2 = 0 THEN 1 ELSE -1) * Det(Minor(M, j, i))])])

\* M with column j replaced by the vector r (Cramer's rule)
ReplaceCol(M, j, r) ==
    Tuple([i \in 1..Len(M) |->
        Tuple([k \in 1..Len(M) |-> IF k = j THEN r[i] ELSE M[i][k]])])

Transpose(M) == Tuple([i \in 1..Len(M) |-> Tuple([j \in 1..Len(M) |-> M[j][i]])])

(***************************************************************************)
(* NetworkData (src/data.py).                                              *)
(***************************************************************************)
Line(f, t, x, c, len) ==
    [from |-> f, to |-> t, reactance |-> x, capacity |-> c, length |-> len]

Gen(cap, cost) == [capacity |-> cap, cost |-> cost]

Ring ==
    << Line("A", "B", 1000, 100, 1000),
       Line("B", "C", 1000, 100, 1000),
       Line("A", "C", 2000, 50, 2000) >>

\* the module-level parameter set of src/main.py (scarcity at node C)
param ==
    [nodes |-> <<"A", "B", "C">>,
     lines |-> Ring,
     generation |-> [x \in {"A", "B", "C"} |->
                        CASE x = "A" -> Gen(100, 20)
                          [] x = "B" -> Gen(50, 40)
                          [] x = "C" -> Gen(0, 0)],
     consumption |-> [x \in {"A", "B", "C"} |-> IF x = "C" THEN 500 ELSE 0]]

\* the same ring with enough generation (congested: A->C limits imports to C)
ParamRing ==
    [nodes |-> <<"A", "B", "C">>,
     lines |-> Ring,
     generation |-> [x \in {"A", "B", "C"} |->
                        CASE x = "A" -> Gen(200, 20)
                          [] x = "B" -> Gen(50, 40)
                          [] x = "C" -> Gen(100, 60)],
     consumption |-> [x \in {"A", "B", "C"} |-> IF x = "A" THEN 50 ELSE 100]]

\* enough generation in total, but node C cannot import its demand
ParamBottleneck ==
    [nodes |-> <<"A", "B", "C">>,
     lines |-> << Line("A", "B", 1000, 100, 1000),
                  Line("B", "C", 1000, 30, 1000),
                  Line("A", "C", 2000, 20, 2000) >>,
     generation |-> [x \in {"A", "B", "C"} |->
                        CASE x = "A" -> Gen(200, 20)
                          [] x = "B" -> Gen(50, 40)
                          [] x = "C" -> Gen(10, 60)],
     consumption |-> [x \in {"A", "B", "C"} |-> IF x = "C" THEN 100 ELSE 0]]

\* node C has no line: no path between C and the other nodes
ParamDisconnected ==
    [nodes |-> <<"A", "B", "C">>,
     lines |-> << Line("A", "B", 1000, 100, 1000) >>,
     generation |-> [x \in {"A", "B", "C"} |-> Gen(100, 20)],
     consumption |-> [x \in {"A", "B", "C"} |-> 50]]

\* the slack node A has no line: B and C are connected to each other only;
\* the generators cannot cover the demand either
ParamIsland ==
    [nodes |-> <<"A", "B", "C">>,
     lines |-> << Line("B", "C", 1000, 100, 1000),
                  Line("C", "B", 2000, 100, 2000) >>,
     generation |-> [x \in {"A", "B", "C"} |-> Gen(40, 20)],
     consumption |-> [x \in {"A", "B", "C"} |-> 50]]

\* a chain fed from A whose lines are too small for the demand of B and of C
ParamChain ==
    [nodes |-> <<"A", "B", "C">>,
     lines |-> << Line("A", "B", 1000, 10, 1000),
                  Line("B", "C", 1000, 10, 1000) >>,
     generation |-> [x \in {"A", "B", "C"} |->
                        IF x = "A" THEN Gen(300, 20) ELSE Gen(0, 0)],
     consumption |-> [x \in {"A", "B", "C"} |-> IF x = "A" THEN 0 ELSE 50]]

\* two nodes joined by two parallel lines with the same endpoints
ParamParallel ==
    [nodes |-> <<"A", "B">>,
     lines |-> << Line("A", "B", 1000, 40, 1000),
                  Line("A", "B", 3000, 60, 3000) >>,
     generation |-> [x \in {"A", "B"} |-> IF x = "A" THEN Gen(150, 10) ELSE Gen(50, 50)],
     consumption |-> [x \in {"A", "B"} |-> IF x = "A" THEN 10 ELSE 70]]

\* a single node and no line
ParamSingle ==
    [nodes |-> <<"A">>,
     lines |-> <<>>,
     generation |-> [x \in {"A"} |-> Gen(80, 25)],
     consumption |-> [x \in {"A"} |-> 60]]

Params ==
    {param, ParamRing, ParamBottleneck, ParamDisconnected, ParamIsland,
     ParamChain, ParamParallel, ParamSingle}

NoResult == [none |-> TRUE]

\* the content of an entry: a number, or text that float() does not convert
Number(v) == [numeric |-> TRUE, value |-> v]

NotANumber == [numeric |-> FALSE, value |-> 0]

DefaultLength == 1000

\* line.get('length', 100)
LineLength(line) == IF "length" \in DOMAIN line THEN line.length ELSE DefaultLength

\* the tk.DoubleVar created for each entry, holding the parameter's value
InitialFields(p) ==
    [demand |-> [nd \in DOMAIN p.consumption |-> Number(p.consumption[nd])],
     gen_cap |-> [nd \in DOMAIN p.generation |-> Number(p.generation[nd].capacity)],
     gen_cost |-> [nd \in DOMAIN p.generation |-> Number(p.generation[nd].cost)],
     line_cap |-> Tuple([i \in 1..Len(p.lines) |-> Number(p.lines[i].capacity)]),
     line_len |-> Tuple([i \in 1..Len(p.lines) |-> Number(LineLength(p.lines[i]))])]

Apps == {"LMPApp", "LMPAppV2"}

\* the parameter sets the applications are started with
GuiParams == {param, ParamParallel, ParamSingle}

Sections == {"network", "generation", "demand"}

\* the status an application shows when it is built, before its first cycle:
\* the pill of LMPApp is created with SYSTEM STABLE, the status text of
\* LMPAppV2 with Calculating...
InitialStatus(a) ==
    CASE a = "LMPApp" -> "SYSTEM STABLE"
      [] a = "LMPAppV2" -> "Calculating..."
      [] OTHER -> "none"

\* NetworkData.__init__: copies of the four parameter fields; the application
\* a keeps the parameter set and builds its entries from it, all sections open
Construct(p, a) ==
    /\ nodes = p.nodes
    /\ lines = p.lines
    /\ generation = p.generation
    /\ consumption = p.consumption
    /\ updates = 0
    /\ outcome = "none"
    /\ result = NoResult
    /\ solved = NoResult
    /\ fields = InitialFields(p)
    /\ display = InitialStatus(a)
    /\ position = "idle"
    /\ app = a
    /\ app_param = p
    /\ section_states = [k \in Sections |-> TRUE]

\* NetworkData and DCPowerFlow without an application
Init == \E p \in Params : Construct(p, "none")

\* LMPApp.__init__ and LMPAppV2.__init__
InitGui == \E p \in GuiParams : \E a \in Apps : Construct(p, a)

\* a faulty setter: the capacity is stored as given
SetCapacity_unclamped(ls, line_idx, capacity) ==
    [ls EXCEPT ![line_idx].capacity = capacity]

\* self.lines[line_idx]['capacity'] = max(0, capacity)
SetCapacity(ls, line_idx, capacity) ==
    [ls EXCEPT ![line_idx].capacity = Max(0, capacity)]

update_line_capacity(line_idx, capacity) ==
    /\ updates < MaxUpdates
    /\ line_idx \in 1..Len(lines)
    /\ lines' = SetCapacity(lines, line_idx, capacity)
    /\ updates' = updates + 1
    /\ UNCHANGED <<nodes, generation, consumption, outcome, result, solved,
                   fields, display, position, app, app_param, section_states>>

LengthFloor == 1

ReactancePerLength == 1

\* a different setter: the reactance is computed from the stored length
SetLength_fromstored(ls, line_idx, length) ==
    [ls EXCEPT ![line_idx].length = Max(LengthFloor, length),
               ![line_idx].reactance = Max(LengthFloor, length) * ReactancePerLength]

\* the length is stored clamped; the reactance is computed from the argument
SetLength(ls, line_idx, length) ==
    [ls EXCEPT ![line_idx].length = Max(LengthFloor, length),
               ![line_idx].reactance = length * ReactancePerLength]

update_line_length(line_idx, length) ==
    /\ updates < MaxUpdates
    /\ line_idx \in 1..Len(lines)
    /\ lines' = SetLength(lines, line_idx, length)
    /\ updates' = updates + 1
    /\ UNCHANGED <<nodes, generation, consumption, outcome, result, solved,
                   fields, display, position, app, app_param, section_states>>

SetGeneration(gens, node, capacity, cost) ==
    [gens EXCEPT ![node] = Gen(Max(0, capacity), Max(0, cost))]

update_generation(node, capacity, cost) ==
    /\ updates < MaxUpdates
    /\ node \in DOMAIN generation
    /\ generation' = SetGeneration(generation, node, capacity, cost)
    /\ updates' = updates + 1
    /\ UNCHANGED <<nodes, lines, consumption, outcome, result, solved,
                   fields, display, position, app, app_param, section_states>>

\* self.consumption[node] = max(0, consumption): a dict assignment, which
\* adds the key when the dict does not have it
SetConsumption(cons, node, value) ==
    [x \in DOMAIN cons \cup {node} |-> IF x = node THEN Max(0, value) ELSE cons[x]]

update_consumption(node, value) ==
    /\ updates < MaxUpdates
    /\ consumption' = SetConsumption(consumption, node, value)
    /\ updates' = updates + 1
    /\ UNCHANGED <<nodes, lines, generation, outcome, result, solved,
                   fields, display, position, app, app_param, section_states>>

(***************************************************************************)
(* DCPowerFlow._build_ptdf_matrix (src/func.py).                           *)
(*                                                                         *)
(* The susceptances b = 1/reactance are rationals; they are all scaled by  *)
(* the least common multiple of the reactances so that the susceptance     *)
(* matrix is an integer matrix, and the inverse of the reduced matrix is   *)
(* its adjugate over its determinant.  The PTDF matrix is the integer      *)
(* matrix PtdfNum over the common positive denominator PtdfDen.            *)
(***************************************************************************)
n_nodes == Len(nodes)

n_lines == Len(lines)

\* nodes.index(name): the first position of name in the node list
NodeIndex(name) ==
    CHOOSE k \in 1..Len(nodes) :
        nodes[k] = name /\ \A m \in 1..(k - 1) : nodes[m] # name

ReactanceLcm == SeqLcm(Tuple([l \in 1..n_lines |-> lines[l].reactance]))

\* b = 1.0 / line['reactance'], times ReactanceLcm
Susceptance(l) == ReactanceLcm \div lines[l].reactance

\* a faulty B: the off-diagonal entries B[i, j] and B[j, i] are never written
SusceptanceMatrix_diagonal ==
    Tuple([r \in 1..n_nodes |-> Tuple([c \in 1..n_nodes |->
        SeqSum(Tuple([l \in 1..n_lines |->
            LET i == NodeIndex(lines[l].from)
                j == NodeIndex(lines[l].to)
                b == Susceptance(l)
            IN  (IF r = i /\ c = i THEN b ELSE 0)
              + (IF r = j /\ c = j THEN b ELSE 0)]))])])

\* the susceptance matrix B, times ReactanceLcm
SusceptanceMatrix ==
    Tuple([r \in 1..n_nodes |-> Tuple([c \in 1..n_nodes |->
        SeqSum(Tuple([l \in 1..n_lines |->
            LET i == NodeIndex(lines[l].from)
                j == NodeIndex(lines[l].to)
                b == Susceptance(l)
            IN  (IF r = i /\ c = i THEN b ELSE 0)
              + (IF r = j /\ c = j THEN b ELSE 0)
              - (IF r = i /\ c = j THEN b ELSE 0)
              - (IF r = j /\ c = i THEN b ELSE 0)]))])])

\* B[1:, 1:]: the slack bus (first node) removed
B_reduced == Minor(SusceptanceMatrix, 1, 1)

\* the error _build_ptdf_matrix raises, or "none"
PtdfError ==
    IF \E l \in 1..n_lines : lines[l].reactance = 0 THEN "ZeroDivisionError"
    ELSE IF n_nodes > 1 /\ Det(B_reduced) = 0 THEN "LinAlgError"
    ELSE "none"

\* a faulty builder: the last node instead of the first is taken as slack bus
PtdfRaw_lastslack ==
    LET reduced == Minor(SusceptanceMatrix, n_nodes, n_nodes)
        adj == Adj(reduced)
        det == IF n_nodes > 1 THEN Det(reduced) ELSE 1
        binv(i, n) == IF i = n_nodes \/ n = n_nodes THEN 0 ELSE adj[i][n]
        num == Tuple([l \in 1..n_lines |-> Tuple([n \in 1..n_nodes |->
                  Susceptance(l) * (binv(NodeIndex(lines[l].from), n)
                                    - binv(NodeIndex(lines[l].to), n))])])
    IN  <<num, det>>

\* ptdf[l, n] = b * (B_inv[i, n] - B_inv[j, n]) as a pair <<numerators, denominator>>;
\* B_inv has a zero first row and column and inv(B_reduced) elsewhere
PtdfRaw ==
    LET reduced == B_reduced
        adj == Adj(reduced)
        det == IF n_nodes > 1 THEN Det(reduced) ELSE 1
        binv(i, n) == IF i = 1 \/ n = 1 THEN 0 ELSE adj[i - 1][n - 1]
        num == Tuple([l \in 1..n_lines |-> Tuple([n \in 1..n_nodes |->
                  Susceptance(l) * (binv(NodeIndex(lines[l].from), n)
                                    - binv(NodeIndex(lines[l].to), n))])])
    IN  <<num, det>>

\* the same matrix over its least positive common denominator
_build_ptdf_matrix ==
    LET raw == PtdfRaw
        g0 == Gcd(SeqGcd(Tuple([l \in 1..n_lines |-> SeqGcd(raw[1][l])])), raw[2])
        g == IF raw[2] < 0 THEN -g0 ELSE g0
    IN  [num |-> Tuple([l \in 1..n_lines |->
                    Tuple([n \in 1..n_nodes |-> raw[1][l][n] \div g])]),
         den |-> raw[2] \div g]

\* the matrix as the solver's result carries it: one rational per entry
PtdfValue(ptdf) ==
    Tuple([l \in 1..Len(ptdf.num) |-> Tuple([n \in 1..Len(ptdf.num[l]) |->
        Rat(ptdf.num[l][n], ptdf.den)])])

(***************************************************************************)
(* scipy.optimize.linprog(c, A_ub, b_ub, A_eq, b_eq, bounds, 'highs') as   *)
(* DCPowerFlow.solve calls it: minimise costs . gen subject to             *)
(*     sum(gen) = total_consumption,                                       *)
(*     ptdf @ gen <= capacities + ptdf @ consumption,                      *)
(*    -ptdf @ gen <= capacities - ptdf @ consumption,                      *)
(*     0 <= gen[n] <= generation capacity of node n.                       *)
(* The feasible set is bounded, so an optimum, when there is one, is       *)
(* attained at a basic solution: the equality row and n_nodes - 1          *)
(* inequality rows hold with equality and determine gen (Cramer's rule).   *)
(* A basis is optimal when its solution satisfies every row and its dual   *)
(* solution has the sign of a minimisation (marginals of <= rows are <= 0).*)
(* The solver returns the primal and dual solution of an optimal basis;    *)
(* which one, when there are several, is not specified.                    *)
(***************************************************************************)
Unit(n, k) == Tuple([m \in 1..n |-> IF m = k THEN 1 ELSE 0])

Neg(v) == Tuple([k \in 1..Len(v) |-> -v[k]])

costs == Tuple([n \in 1..n_nodes |-> generation[nodes[n]].cost])

\* a faulty total: the consumption of the first node is left out
total_consumption_skipfirst == DictSum(consumption, DOMAIN consumption \ {nodes[1]})

\* sum(self.network.consumption.values()): over every key of the dict
total_consumption == DictSum(consumption, DOMAIN consumption)

consumption_vector == Tuple([n \in 1..n_nodes |-> consumption[nodes[n]]])

\* a faulty read: the limit of a line is taken from its 'length'
capacities_fromlength == Tuple([l \in 1..n_lines |-> lines[l].length])

capacities == Tuple([l \in 1..n_lines |-> lines[l].capacity])

\* faulty rows: b_ub is the capacities alone, without the flow due to consumption
LpRows_noconsumption(ptdf) ==
    LET caps == capacities
    IN  Tuple([k \in 1..(2 * n_lines + 2 * n_nodes) |->
            IF k <= n_lines
            THEN [a |-> ptdf.num[k], r |-> ptdf.den * caps[k], scale |-> ptdf.den]
            ELSE IF k <= 2 * n_lines
            THEN [a |-> Neg(ptdf.num[k - n_lines]),
                  r |-> ptdf.den * caps[k - n_lines],
                  scale |-> ptdf.den]
            ELSE IF k <= 2 * n_lines + n_nodes
            THEN [a |-> Neg(Unit(n_nodes, k - 2 * n_lines)), r |-> 0, scale |-> 1]
            ELSE [a |-> Unit(n_nodes, k - 2 * n_lines - n_nodes),
                  r |-> generation[nodes[k - 2 * n_lines - n_nodes]].capacity,
                  scale |-> 1]])

\* the inequality rows  a . gen <= r  of the program: A_ub, b_ub (each line row
\* multiplied by the PTDF denominator, recorded as scale), then the bounds
LpRows(ptdf) ==
    LET cons == consumption_vector
        caps == capacities
    IN  Tuple([k \in 1..(2 * n_lines + 2 * n_nodes) |->
            IF k <= n_lines
            THEN [a |-> ptdf.num[k],
                  r |-> ptdf.den * caps[k] + Dot(ptdf.num[k], cons),
                  scale |-> ptdf.den]
            ELSE IF k <= 2 * n_lines
            THEN [a |-> Neg(ptdf.num[k - n_lines]),
                  r |-> ptdf.den * caps[k - n_lines] - Dot(ptdf.num[k - n_lines], cons),
                  scale |-> ptdf.den]
            ELSE IF k <= 2 * n_lines + n_nodes
            THEN [a |-> Neg(Unit(n_nodes, k - 2 * n_lines)), r |-> 0, scale |-> 1]
            ELSE [a |-> Unit(n_nodes, k - 2 * n_lines - n_nodes),
                  r |-> generation[nodes[k - 2 * n_lines - n_nodes]].capacity,
                  scale |-> 1]])

\* the subsets of 1..k with m elements
RECURSIVE Combos(_, _)
Combos(k, m) ==
    IF m = 0 THEN {{}}
    ELSE IF k < m THEN {}
    ELSE Combos(k - 1, m) \cup {T \cup {k} : T \in Combos(k - 1, m - 1)}

RECURSIVE SortedSeq(_)
SortedSeq(S) ==
    IF S = {} THEN <<>>
    ELSE LET lo == CHOOSE x \in S : \A y \in S : x <= y
         IN  <<lo>> \o SortedSeq(S \ {lo})

\* the square system of the equality row and the rows in S
BasisMatrix(rows, idx) ==
    <<Tuple([n \in 1..n_nodes |-> 1])>> \o [k \in 1..Len(idx) |-> rows[idx[k]].a]

\* the primal basic solution of the rows in S: numerators xn over den > 0
\* (den = 0: the rows are dependent and determine no point)
PrimalSolution(rows, S) ==
    LET idx == SortedSeq(S)
        M == BasisMatrix(rows, idx)
        rhs == <<total_consumption>> \o [k \in 1..Len(idx) |-> rows[idx[k]].r]
        det == Det(M)
        sgn == IF det < 0 THEN -1 ELSE 1
    IN  [idx |-> idx,
         den |-> sgn * det,
         xn |-> IF det = 0 THEN <<>>
                ELSE Tuple([n \in 1..n_nodes |-> sgn * Det(ReplaceCol(M, n, rhs))])]

PrimalFeasible(rows, b) ==
    \A k \in 1..Len(rows) : Dot(rows[k].a, b.xn) <= rows[k].r * b.den

\* the dual solution of a basis: numerators zn over the same den, zn[1] for the
\* equality row and zn[k + 1] for the k-th row of the basis
DualSolution(rows, b) ==
    LET MT == Transpose(BasisMatrix(rows, b.idx))
        sgn == IF Det(MT) < 0 THEN -1 ELSE 1
        c == costs
    IN  [idx |-> b.idx, den |-> b.den, xn |-> b.xn,
         zn |-> Tuple([k \in 1..n_nodes |-> sgn * Det(ReplaceCol(MT, k, c))])]

DualFeasible(b) == \A k \in 2..Len(b.zn) : b.zn[k] <= 0

OptimalBases(rows) ==
    LET primal == {PrimalSolution(rows, S) : S \in Combos(Len(rows), n_nodes - 1)}
        feasible == {b \in primal : b.den # 0 /\ PrimalFeasible(rows, b)}
    IN  {b \in {DualSolution(rows, f) : f \in feasible} : DualFeasible(b)}

\* the marginal of inequality row k of the program in basis b
Marginal(rows, b, k) ==
    LET pos == {m \in 1..Len(b.idx) : b.idx[m] = k}
    IN  IF pos = {} THEN RZero
        ELSE Rat(b.zn[1 + (CHOOSE m \in pos : TRUE)] * rows[k].scale, b.den)

\* the OptimizeResult of an optimal basis; the fields eqlin and ineqlin (the
\* marginals) exist only in the scipy versions that report duals
OptimizeResult(rows, b, marginals) ==
    IF marginals
    THEN [success |-> TRUE,
          x |-> Tuple([n \in 1..n_nodes |-> Rat(b.xn[n], b.den)]),
          fun |-> Rat(Dot(costs, b.xn), b.den),
          eqlin |-> Rat(b.zn[1], b.den),
          ineqlin |-> Tuple([k \in 1..(2 * n_lines) |-> Marginal(rows, b, k)])]
    ELSE [success |-> TRUE,
          x |-> Tuple([n \in 1..n_nodes |-> Rat(b.xn[n], b.den)]),
          fun |-> Rat(Dot(costs, b.xn), b.den)]

\* the messages of an unsuccessful OptimizeResult: the LP has no feasible point,
\* or the backend gave up for another reason
MessageInfeasible == "The problem is infeasible."

MessageIterationLimit == "Iteration limit reached."

MessageNumerical == "Numerical difficulties encountered."

FailedResult(message) == [success |-> FALSE, message |-> message]

\* the failures of the backend that are not a proof of infeasibility
BackendFaults == {MessageIterationLimit, MessageNumerical}

\* the results linprog can return; fault = "none" when the backend runs to completion
linprog(ptdf, fault, marginals) ==
    IF fault # "none" THEN {FailedResult(fault)}
    ELSE LET rows == LpRows(ptdf)
             opt == OptimalBases(rows)
         IN  IF opt = {} THEN {FailedResult(MessageInfeasible)}
             ELSE {OptimizeResult(rows, b, marginals) : b \in opt}

(***************************************************************************)
(* DCPowerFlow: result extraction (src/func.py).                           *)
(***************************************************************************)
\* f"{line['from']}{arrow}{line['to']}"
_line_id(line) == line.from \o "→" \o line.to

LineIds == {_line_id(lines[l]) : l \in 1..n_lines}

\* a dict comprehension over the lines keeps, for each key, the last line's value
LastLine(id) ==
    CHOOSE l \in 1..n_lines :
        _line_id(lines[l]) = id /\ \A m \in (l + 1)..n_lines : _line_id(lines[m]) # id

Hundredth == [n |-> 1, d |-> 100]

\* the fold of the first loop of _find_marginal_cost over nodes 1..k
RECURSIVE MarginalScan(_, _)
MarginalScan(gen, k) ==
    IF k = 0 THEN 0
    ELSE LET prev == MarginalScan(gen, k - 1)
             cap == RSub(RInt(generation[nodes[k]].capacity), Hundredth)
         IN  IF RLess(RZero, gen[k]) /\ RLess(gen[k], cap) THEN Max(prev, costs[k])
             ELSE IF RLeq(cap, gen[k]) /\ RLess(Hundredth, gen[k]) THEN Max(prev, costs[k])
             ELSE prev

\* the fold of its second loop, entered only when the first loop left 0
RECURSIVE ActiveScan(_, _)
ActiveScan(gen, k) ==
    IF k = 0 THEN 0
    ELSE LET prev == ActiveScan(gen, k - 1)
         IN  IF RLess(Hundredth, gen[k])
             THEN (IF prev = 0 THEN costs[k] ELSE Max(prev, costs[k]))
             ELSE prev

_find_marginal_cost(gen) ==
    LET marginal_cost == MarginalScan(gen, n_nodes)
    IN  IF marginal_cost = 0 THEN ActiveScan(gen, n_nodes) ELSE marginal_cost

\* lmp_values after the loop over lines 1..k: lmp_values -= congestion_price * ptdf[l, :]
RECURSIVE LmpScan(_, _, _, _)
LmpScan(res, ptdf, lambda_energy, k) ==
    IF k = 0 THEN Tuple([n \in 1..n_nodes |-> lambda_energy])
    ELSE LET prev == LmpScan(res, ptdf, lambda_energy, k - 1)
             mu_upper == res.ineqlin[k]
             mu_lower == res.ineqlin[n_lines + k]
             congestion_price == RSub(mu_upper, mu_lower)
         IN  Tuple([n \in 1..n_nodes |->
                RSub(prev[n], RMul(congestion_price, Rat(ptdf.num[k][n], ptdf.den)))])

_calculate_lmp(res, ptdf) ==
    LET lmp_values ==
            IF "ineqlin" \in DOMAIN res
            THEN LET lambda_energy ==
                        IF "eqlin" \in DOMAIN res THEN res.eqlin
                        ELSE RInt(_find_marginal_cost(res.x))
                 IN  LmpScan(res, ptdf, lambda_energy, n_lines)
            ELSE Tuple([n \in 1..n_nodes |-> RInt(_find_marginal_cost(res.x))])
    IN  [nd \in {nodes[n] : n \in 1..n_nodes} |-> lmp_values[NodeIndex(nd)]]

\* line_id -> {generator node: ptdf[l, n] * gen}, for the generators above 0.01 MW
_calculate_generator_flows(gen, ptdf) ==
    [id \in LineIds |->
        [nd \in {nodes[n] : n \in {m \in 1..n_nodes : RLess(Hundredth, gen[m])}} |->
            RMul(Rat(ptdf.num[LastLine(id)][NodeIndex(nd)], ptdf.den), gen[NodeIndex(nd)])]]

(***************************************************************************)
(* DCPowerFlow._analyze_infeasibility (src/func.py).  The three lists of   *)
(* the analysis grow together; a detail and a suggestion are modelled by   *)
(* the numbers and names their text is formatted from.                     *)
(***************************************************************************)
total_gen_capacity ==
    SeqSum(Tuple([n \in 1..n_nodes |-> generation[nodes[n]].capacity]))

CauseShortfall == "INSUFFICIENT GENERATION CAPACITY"

CauseBottleneck(node) == "TRANSMISSION BOTTLENECK TO NODE " \o node

CauseNetwork == "NETWORK CONSTRAINTS"

\* a faulty Check 1: the shortfall is taken as capacity minus demand
ShortfallEntries_negated ==
    LET total_demand == total_consumption
        shortfall == total_gen_capacity - total_demand
    IN  IF total_gen_capacity < total_demand
        THEN << [cause |-> CauseShortfall,
                 detail |-> [total_demand |-> total_demand,
                             total_gen_capacity |-> total_gen_capacity,
                             shortfall |-> shortfall],
                 suggestion |-> [increase_by |-> shortfall, reduce_by |-> shortfall]] >>
        ELSE <<>>

\* Check 1: total generation against total demand
ShortfallEntries ==
    LET total_demand == total_consumption
        shortfall == total_demand - total_gen_capacity
    IN  IF total_gen_capacity < total_demand
        THEN << [cause |-> CauseShortfall,
                 detail |-> [total_demand |-> total_demand,
                             total_gen_capacity |-> total_gen_capacity,
                             shortfall |-> shortfall],
                 suggestion |-> [increase_by |-> shortfall, reduce_by |-> shortfall]] >>
        ELSE <<>>

\* the lines touching node, as "to" first and otherwise as "from", in line order
RECURSIVE ConnectedLines(_, _)
ConnectedLines(node, k) ==
    IF k = 0 THEN <<>>
    ELSE LET prev == ConnectedLines(node, k - 1)
             line == lines[k]
         IN  IF line.to = node
             THEN Append(prev, [line |-> line.from \o "→" \o node,
                                capacity |-> line.capacity, reverse |-> FALSE])
             ELSE IF line.from = node
             THEN Append(prev, [line |-> node \o "→" \o line.to,
                                capacity |-> line.capacity, reverse |-> TRUE])
             ELSE prev

\* a faulty Check 2: the total capacity is not compared with the total demand
RECURSIVE BottleneckEntries_local(_)
BottleneckEntries_local(k) ==
    IF k = 0 THEN <<>>
    ELSE LET prev == BottleneckEntries_local(k - 1)
             node == nodes[k]
             demand == consumption[node]
             local_gen == generation[node].capacity
             net_import_needed == demand - local_gen
             connected_lines == ConnectedLines(node, n_lines)
             import_capacity ==
                 SeqSum(Tuple([m \in 1..Len(connected_lines) |->
                                    connected_lines[m].capacity]))
         IN  IF /\ demand > 0
                /\ local_gen < demand
                /\ import_capacity < net_import_needed
             THEN Append(prev,
                    [cause |-> CauseBottleneck(node),
                     detail |-> [node |-> node,
                                 net_import_needed |-> net_import_needed,
                                 demand |-> demand,
                                 local_gen |-> local_gen,
                                 connected_lines |-> connected_lines,
                                 import_capacity |-> import_capacity],
                     suggestion |-> [node |-> node]])
             ELSE prev

\* Check 2 for the nodes 1..k, in node order
RECURSIVE BottleneckEntries(_)
BottleneckEntries(k) ==
    IF k = 0 THEN <<>>
    ELSE LET prev == BottleneckEntries(k - 1)
             node == nodes[k]
             demand == consumption[node]
             local_gen == generation[node].capacity
             net_import_needed == demand - local_gen
             connected_lines == ConnectedLines(node, n_lines)
             import_capacity ==
                 SeqSum(Tuple([m \in 1..Len(connected_lines) |->
                                    connected_lines[m].capacity]))
         IN  IF /\ demand > 0
                /\ local_gen < demand
                /\ import_capacity < net_import_needed
                /\ total_gen_capacity >= total_consumption
             THEN Append(prev,
                    [cause |-> CauseBottleneck(node),
                     detail |-> [node |-> node,
                                 net_import_needed |-> net_import_needed,
                                 demand |-> demand,
                                 local_gen |-> local_gen,
                                 connected_lines |-> connected_lines,
                                 import_capacity |-> import_capacity],
                     suggestion |-> [node |-> node]])
             ELSE prev

\* a faulty Check 3: the generic cause is appended whatever was found before
_analyze_infeasibility_always ==
    LET found == ShortfallEntries \o BottleneckEntries(n_nodes)
        entries ==
            found \o << [cause |-> CauseNetwork,
                         detail |-> [generic |-> TRUE],
                         suggestion |-> [generic |-> TRUE]] >>
    IN  [causes |-> [k \in 1..Len(entries) |-> entries[k].cause],
         details |-> [k \in 1..Len(entries) |-> entries[k].detail],
         suggestions |-> [k \in 1..Len(entries) |-> entries[k].suggestion]]

_analyze_infeasibility ==
    LET found == ShortfallEntries \o BottleneckEntries(n_nodes)
        entries ==
            IF found = <<>>
            THEN << [cause |-> CauseNetwork,
                     detail |-> [generic |-> TRUE],
                     suggestion |-> [generic |-> TRUE]] >>
            ELSE found
    IN  [causes |-> [k \in 1..Len(entries) |-> entries[k].cause],
         details |-> [k \in 1..Len(entries) |-> entries[k].detail],
         suggestions |-> [k \in 1..Len(entries) |-> entries[k].suggestion]]

(***************************************************************************)
(* DCPowerFlow.solve (src/func.py).                                        *)
(***************************************************************************)
NodeSet == {nodes[n] : n \in 1..n_nodes}

\* a faulty failure dict: the capacities are zeroed with the other fields
InfeasibleResult_zeroed(res, ptdf) ==
    [feasible |-> FALSE,
     message |-> res.message,
     infeasibility_analysis |-> _analyze_infeasibility,
     lmp |-> [nd \in NodeSet |-> RZero],
     generation |-> [nd \in NodeSet |-> RZero],
     flows |-> [id \in LineIds |-> RZero],
     capacities |-> [id \in LineIds |-> 0],
     lengths |-> [id \in LineIds |-> LineLength(lines[LastLine(id)])],
     generator_flows |-> [id \in LineIds |-> <<>>],
     ptdf |-> PtdfValue(ptdf),
     total_cost |-> RZero]

\* the dict returned when linprog reports no success
InfeasibleResult(res, ptdf) ==
    [feasible |-> FALSE,
     message |-> res.message,
     infeasibility_analysis |-> _analyze_infeasibility,
     lmp |-> [nd \in NodeSet |-> RZero],
     generation |-> [nd \in NodeSet |-> RZero],
     flows |-> [id \in LineIds |-> RZero],
     capacities |-> [id \in LineIds |-> lines[LastLine(id)].capacity],
     lengths |-> [id \in LineIds |-> LineLength(lines[LastLine(id)])],
     generator_flows |-> [id \in LineIds |-> <<>>],
     ptdf |-> PtdfValue(ptdf),
     total_cost |-> RZero]

\* line_flows = ptdf @ (result.x - consumption_vector)
LineFlows(res, ptdf) ==
    Tuple([l \in 1..n_lines |->
        RSeqSum(Tuple([n \in 1..n_nodes |->
            RMul(Rat(ptdf.num[l][n], ptdf.den),
                 RSub(res.x[n], RInt(consumption_vector[n])))]))])

\* the dict returned when linprog reports success
FeasibleResult(res, ptdf) ==
    [feasible |-> TRUE,
     lmp |-> _calculate_lmp(res, ptdf),
     generation |-> [nd \in NodeSet |-> res.x[NodeIndex(nd)]],
     flows |-> LET line_flows == LineFlows(res, ptdf)
               IN  [id \in LineIds |-> line_flows[LastLine(id)]],
     capacities |-> [id \in LineIds |-> lines[LastLine(id)].capacity],
     lengths |-> [id \in LineIds |-> LineLength(lines[LastLine(id)])],
     generator_flows |-> _calculate_generator_flows(res.x, ptdf),
     ptdf |-> PtdfValue(ptdf),
     total_cost |-> res.fun]

\* the network fields a solve reads
Network ==
    [nodes |-> nodes, lines |-> lines,
     generation |-> generation, consumption |-> consumption]

\* a solve() that keeps the PTDF matrix of the last returned result instead of
\* building it from the current lines
SolveOutcomes_cached(fault, marginals) ==
    IF PtdfError # "none"
    THEN {[outcome |-> "raised", result |-> [error |-> PtdfError], res |-> NoResult]}
    ELSE LET old == result.ptdf
             den == SeqLcm(Tuple([l \in 1..n_lines |->
                        SeqLcm(Tuple([n \in 1..n_nodes |-> old[l][n].d]))]))
             ptdf == IF outcome = "returned"
                     THEN [num |-> Tuple([l \in 1..n_lines |-> Tuple([n \in 1..n_nodes |->
                                      old[l][n].n * (den \div old[l][n].d)])]),
                           den |-> den]
                     ELSE _build_ptdf_matrix
         IN  {[outcome |-> "returned",
               result |-> IF res.success THEN FeasibleResult(res, ptdf)
                          ELSE InfeasibleResult(res, ptdf),
               res |-> res] : res \in linprog(ptdf, fault, marginals)}

\* what one call of solve() on the current network can do: raise what
\* _build_ptdf_matrix raises, or return a dict built from res, the answer of
\* the LP backend; fault and marginals are the behaviour of that backend
SolveOutcomes(fault, marginals) ==
    IF PtdfError # "none"
    THEN {[outcome |-> "raised", result |-> [error |-> PtdfError], res |-> NoResult]}
    ELSE LET ptdf == _build_ptdf_matrix
         IN  {[outcome |-> "returned",
               result |-> IF res.success THEN FeasibleResult(res, ptdf)
                          ELSE InfeasibleResult(res, ptdf),
               res |-> res] : res \in linprog(ptdf, fault, marginals)}

\* a faulty solve(): it stores the default length in every line it reads
solve_inplace(fault, marginals) ==
    /\ \E o \in SolveOutcomes(fault, marginals) :
            /\ outcome' = o.outcome
            /\ result' = o.result
            /\ solved' = [net |-> Network, res |-> o.res]
    /\ lines' = Tuple([l \in 1..n_lines |-> [lines[l] EXCEPT !.length = DefaultLength]])
    /\ UNCHANGED <<nodes, generation, consumption, updates, fields, display, position, app, app_param, section_states>>

\* one call of solve(); solved records the network it ran on and the answer
\* of the LP backend
solve(fault, marginals) ==
    /\ \E o \in SolveOutcomes(fault, marginals) :
            /\ outcome' = o.outcome
            /\ result' = o.result
            /\ solved' = [net |-> Network, res |-> o.res]
    /\ UNCHANGED <<nodes, lines, generation, consumption, updates,
                   fields, display, position, app, app_param, section_states>>

(***************************************************************************)
(* LMPApp (src/main.py): the entries and the update cycle.                 *)
(***************************************************************************)
FieldNames == {"demand", "gen_cap", "gen_cost", "line_cap", "line_len"}

\* what the user types into an entry: a number (of any sign) or other text
FieldArgs(name) ==
    {NotANumber} \cup
    {Number(v) : v \in CASE name = "demand" -> ConsumptionArgs
                         [] name = "gen_cap" -> GenCapArgs
                         [] name = "gen_cost" -> GenCostArgs
                         [] name = "line_cap" -> CapacityArgs
                         [] name = "line_len" -> LengthArgs}

\* the section of LMPAppV2 that holds the entries of a name
SectionOf(name) ==
    CASE name \in {"line_cap", "line_len"} -> "network"
      [] name \in {"gen_cap", "gen_cost"} -> "generation"
      [] name = "demand" -> "demand"

\* the user replaces the content of one entry; LMPAppV2 builds the entries of
\* an open section only
edit(name, key, content) ==
    /\ position = "idle"
    /\ updates < MaxEdits
    /\ name \in FieldNames
    /\ key \in DOMAIN fields[name]
    /\ section_states[SectionOf(name)]
    /\ fields' = [fields EXCEPT ![name][key] = content]
    /\ updates' = updates + 1
    /\ UNCHANGED <<nodes, lines, generation, consumption, outcome, result, solved,
                   display, position, app, app_param, section_states>>

\* LMPAppV2._toggle_section, the command of the section buttons: the state of
\* the section flips and the three sections are built again; a section that is
\* open replaces its variables by new ones holding the values of self.param, a
\* closed section keeps the variables it had
_toggle_section(section_key) ==
    LET flipped == [section_states EXCEPT ![section_key] = ~@]
        built == InitialFields(app_param)
    IN  /\ app = "LMPAppV2"
        /\ position = "idle"
        /\ updates < MaxEdits
        /\ section_states' = flipped
        /\ fields' = [name \in FieldNames |->
                          IF flipped[SectionOf(name)] THEN built[name] ELSE fields[name]]
        /\ updates' = updates + 1
        /\ UNCHANGED <<nodes, lines, generation, consumption, outcome, result, solved,
                       display, position, app, app_param>>

\* the mutator calls of one cycle, in the order _update_model makes them: for
\* each node update_consumption and update_generation, then for each line
\* update_line_capacity and update_line_length
SyncCalls == 2 * n_nodes + 2 * n_lines

\* a lenient conversion: text that is not a number is taken as 0
Converts_lenient(k) == TRUE

\* call k converts its entries with float(); it raises when one is not a number
Converts(k) ==
    LET half == (k + 1) \div 2
    IN  IF k <= 2 * n_nodes
        THEN IF k % 2 = 1 THEN fields.demand[nodes[half]].numeric
             ELSE /\ fields.gen_cap[nodes[half]].numeric
                  /\ fields.gen_cost[nodes[half]].numeric
        ELSE IF k % 2 = 1 THEN fields.line_cap[half - n_nodes].numeric
             ELSE fields.line_len[half - n_nodes].numeric

\* the network after call k has been made on net
SyncCall(net, k) ==
    LET half == (k + 1) \div 2
    IN  IF k <= 2 * n_nodes
        THEN IF k % 2 = 1
             THEN [net EXCEPT !.consumption =
                      SetConsumption(@, nodes[half], fields.demand[nodes[half]].value)]
             ELSE [net EXCEPT !.generation =
                      SetGeneration(@, nodes[half], fields.gen_cap[nodes[half]].value,
                                    fields.gen_cost[nodes[half]].value)]
        ELSE IF k % 2 = 1
             THEN [net EXCEPT !.lines =
                      SetCapacity(@, half - n_nodes, fields.line_cap[half - n_nodes].value)]
             ELSE [net EXCEPT !.lines =
                      SetLength(@, half - n_nodes, fields.line_len[half - n_nodes].value)]

\* a faulty cycle: a conversion that raises undoes the calls made before it
RECURSIVE Sync_rollback(_)
Sync_rollback(k) ==
    IF k = 0 THEN [net |-> Network, ok |-> TRUE]
    ELSE LET prev == Sync_rollback(k - 1)
         IN  IF ~prev.ok THEN prev
             ELSE IF ~Converts(k) THEN [net |-> Network, ok |-> FALSE]
             ELSE [net |-> SyncCall(prev.net, k), ok |-> TRUE]

\* the calls 1..k of a cycle: the network they leave, and whether all of them
\* were made (a conversion that raises ends the try block)
RECURSIVE Sync(_)
Sync(k) ==
    IF k = 0 THEN [net |-> Network, ok |-> TRUE]
    ELSE LET prev == Sync(k - 1)
         IN  IF ~prev.ok THEN prev
             ELSE IF ~Converts(k) THEN [net |-> prev.net, ok |-> FALSE]
             ELSE [net |-> SyncCall(prev.net, k), ok |-> TRUE]

\* the status pill after _display_results(results) of src/main.py: the
\* feasible branch reads results['energy_price'] and results['lmp_details'],
\* and a KeyError ends in the except clause of _update_model
StatusOf(o) ==
    IF o.outcome = "raised" THEN "ERROR"
    ELSE IF ~o.result.feasible THEN "INFEASIBLE"
    ELSE IF ~({"energy_price", "lmp_details"} \subseteq DOMAIN o.result) THEN "ERROR"
    ELSE IF "shedding" \in DOMAIN o.result
            /\ RLess(Rat(1, 10), RDictSum(o.result.shedding, DOMAIN o.result.shedding))
         THEN "SCARCITY"
    ELSE "SYSTEM STABLE"

\* the status text after _display_results(results) of src/main_v2.py: an
\* infeasible result goes to _display_error; for a feasible result the header
\* is set and then _update_prices_tab reads results['energy_price'] and
\* results['lmp_details'], and a KeyError ends in _display_error
StatusOfV2(o) ==
    IF o.outcome = "raised" THEN "ERROR"
    ELSE IF ~o.result.feasible THEN "ERROR"
    ELSE IF ~({"energy_price", "lmp_details"} \subseteq DOMAIN o.result) THEN "ERROR"
    ELSE IF "shedding" \in DOMAIN o.result
            /\ RLess(Rat(1, 10), RDictSum(o.result.shedding, DOMAIN o.result.shedding))
         THEN "SCARCITY"
    ELSE "Healthy"

\* the try block of _update_model up to its call of solve(): the entries are
\* converted and written to the network in order; a conversion that raises
\* ends the callback in the except clause, with the error display
_update_model ==
    LET sync == Sync(SyncCalls)
    IN  /\ position = "idle"
        /\ nodes' = sync.net.nodes
        /\ lines' = sync.net.lines
        /\ generation' = sync.net.generation
        /\ consumption' = sync.net.consumption
        /\ IF sync.ok
           THEN position' = "solve" /\ UNCHANGED display
           ELSE position' = "idle" /\ display' = "ERROR"
        /\ UNCHANGED <<updates, outcome, result, solved, fields,
                       app, app_param, section_states>>

\* the rest of the callback, which no other event interrupts: solve() runs on
\* the network just written and its results are displayed; what solve() or
\* the display raises ends in the except clause
_update_model_solve(fault, marginals) ==
    /\ position = "solve"
    /\ \E o \in SolveOutcomes(fault, marginals) :
            /\ outcome' = o.outcome
            /\ result' = o.result
            /\ solved' = [net |-> Network, res |-> o.res]
            /\ display' = IF app = "LMPAppV2" THEN StatusOfV2(o) ELSE StatusOf(o)
    /\ position' = "idle"
    /\ UNCHANGED <<nodes, lines, generation, consumption, updates, fields,
                   app, app_param, section_states>>

Next ==
    \/ \E i \in 1..Len(lines), c \in CapacityArgs : update_line_capacity(i, c)
    \/ \E i \in 1..Len(lines), x \in LengthArgs : update_line_length(i, x)
    \/ \E nd \in DOMAIN generation, c \in GenCapArgs, k \in GenCostArgs :
            update_generation(nd, c, k)
    \/ \E nd \in DOMAIN consumption \cup UnknownNodes, c \in ConsumptionArgs :
            update_consumption(nd, c)
    \/ \E fault \in {"none"} \cup BackendFaults, marginals \in BOOLEAN : solve(fault, marginals)

Spec == Init /\ [][Next]_vars

\* the application: the user edits entries and, in LMPAppV2, clicks section
\* buttons, and update cycles run (at start, on Return in an entry, on the
\* button)
NextGui ==
    \/ \E name \in FieldNames :
            \E key \in DOMAIN fields[name], content \in FieldArgs(name) :
                edit(name, key, content)
    \/ \E section_key \in Sections : _toggle_section(section_key)
    \/ _update_model
    \/ \E fault \in {"none"} \cup BackendFaults, marginals \in BOOLEAN :
            _update_model_solve(fault, marginals)

SpecGui == InitGui /\ [][NextGui]_vars

(***************************************************************************)
(* Properties.  A result is judged against solved, the network the solve   *)
(* ran on: the mutators may have changed the network since.                *)
(***************************************************************************)
Returned == outcome = "returned"

Feasible == Returned /\ result.feasible

Infeasible == Returned /\ ~result.feasible

SolvedNodes == {solved.net.nodes[n] : n \in 1..Len(solved.net.nodes)}

SolvedDemand ==
    SeqSum(Tuple([n \in 1..Len(solved.net.nodes) |->
                    solved.net.consumption[solved.net.nodes[n]]]))

\* the total demand as solve and the analysis compute it: the sum of the
\* values of the consumption dict
SolvedTotalDemand == DictSum(solved.net.consumption, DOMAIN solved.net.consumption)

SolvedCapacity ==
    SeqSum(Tuple([n \in 1..Len(solved.net.nodes) |->
                    solved.net.generation[solved.net.nodes[n]].capacity]))

\* results.get('shedding', {}): the reported shedding, none when the key is absent
TotalShedding(res) ==
    IF "shedding" \in DOMAIN res THEN RDictSum(res.shedding, DOMAIN res.shedding)
    ELSE RZero

TotalGeneration(res) == RDictSum(res.generation, DOMAIN res.generation)

\* C1: in every feasible result the generation of all nodes (plus the reported
\* shedding) adds up to the consumption of all nodes of the solved network.
C1_PowerBalance ==
    Feasible =>
        RAdd(TotalGeneration(result), TotalShedding(result)) = RInt(SolvedDemand)

\* a feasible result in which two generators run to cover a positive demand
C1_Witness ==
    /\ Feasible
    /\ SolvedDemand > 0
    /\ Cardinality({nd \in DOMAIN result.generation : result.generation[nd].n > 0}) >= 2

\* C2: in every feasible result the magnitude of each line's flow is at most
\* the capacity reported for that line.
C2_FlowWithinCapacity ==
    Feasible =>
        \A id \in DOMAIN result.flows :
            RLeq(RAbs(result.flows[id]), RInt(result.capacities[id]))

\* a feasible result with a line loaded exactly to its positive capacity
C2_Witness ==
    /\ Feasible
    /\ \E id \in DOMAIN result.flows :
          /\ result.capacities[id] > 0
          /\ RAbs(result.flows[id]) = RInt(result.capacities[id])

\* C3: in every feasible result the generator contributions reported for a line
\* add up to the flow reported for that line.
C3_GeneratorFlowsSum ==
    Feasible =>
        \A id \in DOMAIN result.flows :
            RDictSum(result.generator_flows[id], DOMAIN result.generator_flows[id])
                = result.flows[id]

InjectionValues == {-1, 0, 2}

ShiftValues == {-3, 1}

\* row l of a PTDF matrix of rationals applied to an integer injection vector
FlowOf(ptdf, l, inj) ==
    RSeqSum(Tuple([n \in 1..Len(ptdf[l]) |-> RMul(ptdf[l][n], RInt(inj[n]))]))

Injections == [1..Len(solved.net.nodes) -> InjectionValues]

\* C4 as stated: adding the same constant to the net injection of every node
\* leaves the flow of every line unchanged (translation invariance).
C4_TranslationInvariance ==
    Returned =>
        \A inj \in Injections, c \in ShiftValues, l \in 1..Len(result.ptdf) :
            FlowOf(result.ptdf, l, [n \in 1..Len(solved.net.nodes) |-> inj[n] + c])
                = FlowOf(result.ptdf, l, inj)

\* C4 amended: adding a constant to the net injection of the slack node (the
\* first node) alone leaves the flow of every line unchanged.
C4_SlackShiftInvariance ==
    Returned =>
        \A inj \in Injections, c \in ShiftValues, l \in 1..Len(result.ptdf) :
            FlowOf(result.ptdf, l,
                   [n \in 1..Len(solved.net.nodes) |-> IF n = 1 THEN inj[n] + c ELSE inj[n]])
                = FlowOf(result.ptdf, l, inj)

\* a solve has built a PTDF matrix with a line that reacts to some injection
C4_Witness ==
    /\ Returned
    /\ \E l \in 1..Len(result.ptdf) : \E n \in 1..Len(result.ptdf[l]) :
          result.ptdf[l][n].n # 0

\* the analysis of the result lists the shortfall of the solved network
ShortfallListed ==
    \E k \in 1..Len(result.infeasibility_analysis.causes) :
        /\ result.infeasibility_analysis.causes[k] = CauseShortfall
        /\ result.infeasibility_analysis.details[k].shortfall
              = SolvedTotalDemand - SolvedCapacity

\* C5 as stated: every solve of a network whose total generation capacity is
\* below its total consumption returns an infeasible result whose analysis
\* lists the cause INSUFFICIENT GENERATION CAPACITY with shortfall = demand -
\* capacity.
C5_ShortfallAlwaysReported ==
    (outcome # "none" /\ SolvedCapacity < SolvedTotalDemand) =>
        /\ Returned
        /\ ~result.feasible
        /\ ShortfallListed

\* C5 amended: a solve that returns (the PTDF matrix was built) for a network
\* whose total generation capacity is below its total consumption returns an
\* infeasible result whose analysis lists the cause INSUFFICIENT GENERATION
\* CAPACITY with shortfall = demand - capacity.
C5_ShortfallReported ==
    (Returned /\ SolvedCapacity < SolvedTotalDemand) =>
        /\ ~result.feasible
        /\ \E k \in 1..Len(result.infeasibility_analysis.causes) :
              /\ result.infeasibility_analysis.causes[k] = CauseShortfall
              /\ result.infeasibility_analysis.details[k].shortfall
                    = SolvedTotalDemand - SolvedCapacity
              /\ result.infeasibility_analysis.details[k].shortfall > 0

\* a solve has returned for a network that lacks generation capacity
C5_Witness ==
    /\ Returned
    /\ SolvedCapacity < SolvedTotalDemand
    /\ result.message = MessageInfeasible

\* C6: a solve of a network whose consumption exceeds its generation capacity
\* returns a feasible result that sheds exactly the shortfall and charges the
\* shed energy at the value of lost load (5000 per MWh).
C6_ScarcityIsShed ==
    (Returned /\ SolvedCapacity < SolvedDemand) =>
        /\ result.feasible
        /\ TotalShedding(result) = RInt(SolvedDemand - SolvedCapacity)
        /\ RLeq(RMul(RInt(5000), TotalShedding(result)), result.total_cost)

\* the line ids of the solved network
SolvedLineIds == {_line_id(solved.net.lines[l]) : l \in 1..Len(solved.net.lines)}

\* the LP backend answered the last solve without success
BackendFailed ==
    /\ outcome # "none"
    /\ "success" \in DOMAIN solved.res
    /\ ~solved.res.success

C8_BackendFailureIsDistinct ==
    (Infeasible /\ "infeasibility_analysis" \in DOMAIN result) =>
        result.message = MessageInfeasible

\* the nodes joined to the nodes of S by a line of net, in either direction
Neighbours(net, S) ==
    S \cup {net.lines[l].to : l \in {m \in 1..Len(net.lines) : net.lines[m].from \in S}}
      \cup {net.lines[l].from : l \in {m \in 1..Len(net.lines) : net.lines[m].to \in S}}

RECURSIVE Reach(_, _)
Reach(net, S) ==
    IF Neighbours(net, S) = S THEN S ELSE Reach(net, Neighbours(net, S))

\* some pair of nodes of net has no path of lines between them
Disconnected(net) ==
    /\ Len(net.nodes) > 1
    /\ Reach(net, {net.nodes[1]}) # {net.nodes[n] : n \in 1..Len(net.nodes)}

ResultFields ==
    {"feasible", "generation", "shedding", "lmp", "energy_price", "lmp_details",
     "flows", "capacities", "lengths", "generator_flows", "total_cost"}

\* C10: every result returned by solve has all the fields of the dispatch
\* result: feasibility flag, generation, shedding, lmp, energy price and lmp
\* decomposition, flows, capacities, lengths, generator flows and total cost.
C10_AllFieldsPresent == Returned => ResultFields \subseteq DOMAIN result

\* the congestion adjustment of node n with additive contributions: the sum
\* over the lines of (mu_upper - mu_lower) * PTDF[l][n]
CongestionSum(n) ==
    LET L == Len(solved.net.lines)
    IN  RSeqSum(Tuple([l \in 1..L |->
            RMul(RSub(solved.res.ineqlin[l], solved.res.ineqlin[L + l]),
                 result.ptdf[l][n])]))

\* C11: in every feasible result computed from the duals of the LP, the LMP
\* of node n is lambda plus the sum over the lines of (mu_upper - mu_lower)
\* * PTDF[l][n], lambda being the dual of the power balance.
C11_LmpAdditive ==
    (Feasible /\ "ineqlin" \in DOMAIN solved.res) =>
        \A n \in 1..Len(solved.net.nodes) :
            result.lmp[solved.net.nodes[n]] = RAdd(solved.res.eqlin, CongestionSum(n))

\* C13: a step of solve (any step that changes the outcome, the result or the
\* record of the last solve) leaves the node sequence, the lines, the
\* generation and the consumption of the network unchanged, whether it returns
\* a feasible result, returns an infeasible one, or raises.
C13_SolveLeavesNetwork ==
    [][(<<outcome, result, solved>>' # <<outcome, result, solved>>)
          => UNCHANGED <<nodes, lines, generation, consumption>>]_vars

\* a solve of an updated network has run the infeasibility analysis, and the
\* network is still the one it ran on
C13_Witness ==
    /\ Infeasible
    /\ updates > 0
    /\ result.message = MessageInfeasible
    /\ Network = solved.net

\* C14: every line has capacity >= 0 and length >= 0.1 km, and every node has
\* generation capacity >= 0, generation cost >= 0 and consumption >= 0,
\* whatever the sign of the arguments the mutators were called with.
C14_MutatorsClamp ==
    /\ \A l \in 1..Len(lines) :
          lines[l].capacity >= 0 /\ lines[l].length >= LengthFloor
    /\ \A nd \in DOMAIN generation :
          generation[nd].capacity >= 0 /\ generation[nd].cost >= 0
    /\ \A nd \in DOMAIN consumption : consumption[nd] >= 0

\* a mutator was called with a negative argument: only update_line_length
\* with a negative length leaves a negative reactance
C14_Witness ==
    /\ updates > 0
    /\ \E l \in 1..Len(lines) :
          lines[l].reactance < 0 /\ lines[l].length = LengthFloor

\* C15: after update_line_length(l, x), line l has reactance = length * 0.001
\* for its stored length.
C15_ReactanceFollowsLength ==
    [][\A l \in 1..Len(lines), x \in LengthArgs :
          update_line_length(l, x) =>
              lines'[l].reactance = lines'[l].length * ReactancePerLength]_vars

\* C16: after update_line_length(l, x), the reactance of line l is x * 0.001.
C16_ReactanceFromArgument ==
    [][\A l \in 1..Len(lines), x \in LengthArgs :
          update_line_length(l, x) =>
              lines'[l].reactance = x * ReactancePerLength]_vars

\* update_line_length was called with 0: the length is at its floor and the
\* reactance is 0
C16_Witness ==
    /\ updates > 0
    /\ \E l \in 1..Len(lines) :
          lines[l].reactance = 0 /\ lines[l].length = LengthFloor

\* C17: every line of the network has a reactance > 0.
C17_ReactancePositive ==
    \A l \in 1..Len(lines) : lines[l].reactance > 0

\* some entry of the GUI holds text that float() does not convert
SomeEntryNotNumeric ==
    \E name \in FieldNames : \E key \in DOMAIN fields[name] : ~fields[name][key].numeric

\* C18: an update cycle that starts with an entry that is not a number does
\* not call solve (the outcome and the result of the last solve stay, and
\* the callback is over) and ends with the error display.
C18_NonNumericNotSolved ==
    [][(_update_model /\ SomeEntryNotNumeric) =>
          /\ position' = "idle"
          /\ display' = "ERROR"
          /\ UNCHANGED <<outcome, result, solved>>]_vars

\* a cycle has ended in the error display before any solve, with an entry
\* that is not a number
C18_Witness ==
    /\ SomeEntryNotNumeric
    /\ position = "idle"
    /\ display = "ERROR"
    /\ outcome = "none"

\* C19: a solve of the 3-node ring scenario whose LP backend runs to
\* completion returns a feasible result with a total generation of 250 MW and
\* strictly positive generation at node C.
C19_RingScenario ==
    (/\ outcome # "none"
     /\ solved.net = ParamRing
     /\ solved.res \notin {FailedResult(m) : m \in BackendFaults}) =>
        /\ Feasible
        /\ TotalGeneration(result) = RInt(250)
        /\ RLess(RZero, result.generation["C"])

\* the ring scenario was solved with the cheap generator short of its capacity
C19_Witness ==
    /\ Feasible
    /\ solved.net = ParamRing
    /\ result.generation["A"] = RInt(175)

\* C20: as long as the network is the one the last solve ran on, the PTDF
\* matrix in the result of that solve is the one built from the current lines
\* and their reactances.
C20_PtdfIsFresh ==
    (Returned /\ Network = solved.net) =>
        result.ptdf = PtdfValue(_build_ptdf_matrix)

\* a solve has returned for a network in which update_line_length has changed
\* the reactance of the line from A to B
C20_Witness ==
    /\ Returned
    /\ Network = solved.net
    /\ updates > 0
    /\ \E l \in 1..Len(lines) :
          /\ lines[l].from = "A" /\ lines[l].to = "B"
          /\ lines[l].reactance = 2000 /\ lines[l].length = 2000

\* the price _find_marginal_cost returned to the last solve: without the duals
\* of the LP every node's LMP is that price
FallbackPrice == result.lmp[solved.net.nodes[1]]

FallbackUsed == Feasible /\ "ineqlin" \notin DOMAIN solved.res

SolvedIndices == 1..Len(solved.net.nodes)

SolvedCost(n) == solved.net.generation[solved.net.nodes[n]].cost

\* the nodes whose generation is strictly between 0 and their capacity
PartiallyLoaded ==
    {n \in SolvedIndices :
        /\ RLess(RZero, solved.res.x[n])
        /\ RLess(solved.res.x[n],
                 RInt(solved.net.generation[solved.net.nodes[n]].capacity))}

\* the nodes with positive generation
Generating == {n \in SolvedIndices : RLess(RZero, solved.res.x[n])}

\* C21 as stated: when some generator is partially loaded, the price returned
\* by _find_marginal_cost is the cost of a partially loaded generator.
C21_PartialPreferred ==
    (FallbackUsed /\ PartiallyLoaded # {}) =>
        \E n \in PartiallyLoaded : FallbackPrice = RInt(SolvedCost(n))

\* C22: when no node has positive generation, the price returned by
\* _find_marginal_cost is the cost of the first node.
C22_FirstNodeDefault ==
    (FallbackUsed /\ Generating = {}) => FallbackPrice = RInt(SolvedCost(1))


Causes == result.infeasibility_analysis.causes

CauseSet == {Causes[k] : k \in 1..Len(Causes)}

\* the sum of the capacities of the lines of the solved network touching node
TouchingCapacity(node) ==
    SeqSum(Tuple([l \in 1..Len(solved.net.lines) |->
        IF solved.net.lines[l].to = node \/ solved.net.lines[l].from = node
        THEN solved.net.lines[l].capacity ELSE 0]))

\* the bottleneck condition of a node of the solved network
BottleneckAt(node) ==
    /\ solved.net.generation[node].capacity < solved.net.consumption[node]
    /\ TouchingCapacity(node)
          < solved.net.consumption[node] - solved.net.generation[node].capacity
    /\ SolvedCapacity >= SolvedTotalDemand

\* C23: the analysis lists TRANSMISSION BOTTLENECK TO NODE n exactly when n's
\* local capacity is below its demand, the capacities of the lines touching n
\* add up to less than the missing import, and the total capacity covers the
\* total demand; the shortfall cause and a bottleneck cause never appear together.
C23_BottleneckIff ==
    Infeasible =>
        /\ \A node \in SolvedNodes :
              (CauseBottleneck(node) \in CauseSet) <=> BottleneckAt(node)
        /\ (CauseShortfall \in CauseSet) =>
              \A node \in SolvedNodes : CauseBottleneck(node) \notin CauseSet

\* an analysis that lists a bottleneck for a node of a network whose total
\* capacity covers its demand
C23_Witness ==
    /\ Infeasible
    /\ SolvedCapacity >= SolvedTotalDemand
    /\ \E node \in SolvedNodes : CauseBottleneck(node) \in CauseSet


\* the position of a node in the node sequence of the solved network
SolvedIndex(node) == CHOOSE n \in SolvedIndices : solved.net.nodes[n] = node

\* the position of a cause in check order: the shortfall first, then the
\* bottlenecks in node order, the generic cause last
CheckOrder(cause) ==
    IF cause = CauseShortfall THEN 0
    ELSE IF \E node \in SolvedNodes : cause = CauseBottleneck(node)
    THEN SolvedIndex(CHOOSE node \in SolvedNodes : cause = CauseBottleneck(node))
    ELSE Len(solved.net.nodes) + 1

\* C24: the analysis lists NETWORK CONSTRAINTS exactly when neither the
\* shortfall check nor any node's bottleneck check triggered; the causes are
\* never empty; causes, details and suggestions have the same length and come
\* in check order.
C24_CausesWellFormed ==
    Infeasible =>
        /\ (CauseNetwork \in CauseSet) <=>
              /\ ~(SolvedCapacity < SolvedTotalDemand)
              /\ \A node \in SolvedNodes : ~BottleneckAt(node)
        /\ Len(Causes) >= 1
        /\ Len(result.infeasibility_analysis.details) = Len(Causes)
        /\ Len(result.infeasibility_analysis.suggestions) = Len(Causes)
        /\ \A j, k \in 1..Len(Causes) :
              j < k => CheckOrder(Causes[j]) < CheckOrder(Causes[k])

\* an analysis in which no check triggered and the generic cause stands alone
C24_Witness ==
    /\ Infeasible
    /\ Causes = << CauseNetwork >>
    /\ SolvedCapacity >= SolvedTotalDemand


SolvedLines == 1..Len(solved.net.lines)

\* PTDF row l of the result applied to the net injections of the last solve
RowFlow(l) ==
    RSeqSum(Tuple([n \in SolvedIndices |->
        RMul(result.ptdf[l][n],
             RSub(solved.res.x[n],
                  RInt(solved.net.consumption[solved.net.nodes[n]])))]))

\* C25: every result has one flows, capacities, lengths and generator_flows
\* entry per line of the solved network, and the entry of line l holds line l's
\* own capacity and, when feasible, the flow given by PTDF row l.
C25_OneEntryPerLine ==
    Returned =>
        /\ Cardinality(DOMAIN result.flows) = Len(solved.net.lines)
        /\ Cardinality(DOMAIN result.capacities) = Len(solved.net.lines)
        /\ Cardinality(DOMAIN result.lengths) = Len(solved.net.lines)
        /\ Cardinality(DOMAIN result.generator_flows) = Len(solved.net.lines)
        /\ \A l \in SolvedLines :
              /\ result.capacities[_line_id(solved.net.lines[l])]
                    = solved.net.lines[l].capacity
              /\ result.feasible =>
                    result.flows[_line_id(solved.net.lines[l])] = RowFlow(l)


\* C26: an update cycle of LMPApp whose entries were all numeric and whose
\* solve returns a feasible result does not end in the error display.
C26_FeasibleCycleDisplays ==
    [][(app = "LMPApp" /\ position = "solve" /\ outcome' = "returned"
            /\ result'.feasible)
            => display' # "ERROR"]_vars


\* C27: no mutator call changes the node sequence, the number or order of the
\* lines, the endpoints of a line, or the key sets of the generation and
\* consumption maps.
C27_MutatorsKeepTopology ==
    [][(updates' # updates) =>
            /\ nodes' = nodes
            /\ Len(lines') = Len(lines)
            /\ \A l \in 1..Len(lines) :
                  lines'[l].from = lines[l].from /\ lines'[l].to = lines[l].to
            /\ DOMAIN generation' = DOMAIN generation
            /\ DOMAIN consumption' = DOMAIN consumption]_vars


\* the smallest reporting threshold the claim allows, 0.05 MW
ReportingThreshold == Rat(1, 20)

\* C28: in every feasible result generator_flows[l] has an entry for node g only
\* if the generation at g exceeds 0.01 MW and the magnitude of the contribution
\* exceeds the reporting threshold; no zero-valued contribution is reported.
C28_OnlySignificantContributions ==
    Feasible =>
        \A id \in DOMAIN result.generator_flows :
            \A g \in DOMAIN result.generator_flows[id] :
                /\ RLess(Hundredth, result.generation[g])
                /\ RLess(ReportingThreshold, RAbs(result.generator_flows[id][g]))


\* the value the network holds for an entry
NetValue(net, name, key) ==
    CASE name = "demand" -> net.consumption[key]
      [] name = "gen_cap" -> net.generation[key].capacity
      [] name = "gen_cost" -> net.generation[key].cost
      [] name = "line_cap" -> net.lines[key].capacity
      [] name = "line_len" -> net.lines[key].length

\* the value a mutator stores for the number v of an entry
Clamped(name, v) == IF name = "line_len" THEN Max(LengthFloor, v) ELSE Max(0, v)

\* the place of an entry in the order a cycle processes the entries: per node
\* demand, capacity and cost, then per line capacity and length
FieldPosition(name, key) ==
    CASE name = "demand" -> 3 * (NodeIndex(key) - 1) + 1
      [] name = "gen_cap" -> 3 * (NodeIndex(key) - 1) + 2
      [] name = "gen_cost" -> 3 * (NodeIndex(key) - 1) + 3
      [] name = "line_cap" -> 3 * n_nodes + 2 * (key - 1) + 1
      [] name = "line_len" -> 3 * n_nodes + 2 * (key - 1) + 2

\* the place of the mutator call that writes an entry: the capacity and the
\* cost of a node are written by one call of update_generation
CallPosition(name, key) ==
    CASE name = "demand" -> 2 * (NodeIndex(key) - 1) + 1
      [] name = "gen_cap" -> 2 * (NodeIndex(key) - 1) + 2
      [] name = "gen_cost" -> 2 * (NodeIndex(key) - 1) + 2
      [] name = "line_cap" -> 2 * n_nodes + 2 * (key - 1) + 1
      [] name = "line_len" -> 2 * n_nodes + 2 * (key - 1) + 2

NodeFields == {"demand", "gen_cap", "gen_cost"}

LineFields == {"line_cap", "line_len"}

\* the entry comes before every entry that is not a number, in the order Pos
BeforeFailure(Pos(_, _), name, key) ==
    /\ \A f \in NodeFields : \A k \in NodeSet :
          ~fields[f][k].numeric => Pos(name, key) < Pos(f, k)
    /\ \A f \in LineFields : \A k \in 1..n_lines :
          ~fields[f][k].numeric => Pos(name, key) < Pos(f, k)

\* the network after the step
NetworkAfter ==
    [nodes |-> nodes', lines |-> lines',
     generation |-> generation', consumption |-> consumption']

\* the step wrote the entries before the failure, in the order Pos, and left
\* the others as they were
AppliedUpToFailure(Pos(_, _), name, key) ==
    IF BeforeFailure(Pos, name, key)
    THEN NetValue(NetworkAfter, name, key) = Clamped(name, fields[name][key].value)
    ELSE NetValue(NetworkAfter, name, key) = NetValue(Network, name, key)

\* C29 as stated: after a cycle that aborts on an entry that is not a number,
\* every entry processed before the failing entry holds its new clamped value
\* in the network, and the failing entry and all later entries keep their
\* previous values.
C29_EarlierFieldsApplied ==
    [][(_update_model /\ SomeEntryNotNumeric) =>
          /\ \A name \in NodeFields : \A key \in NodeSet :
                AppliedUpToFailure(FieldPosition, name, key)
          /\ \A name \in LineFields : \A key \in 1..n_lines :
                AppliedUpToFailure(FieldPosition, name, key)]_vars

\* C29 amended: after a cycle that aborts on an entry that is not a number,
\* every entry written by a mutator call before the failing call holds its new
\* clamped value, and the entries of the failing call (for update_generation
\* both the capacity and the cost of the node) and of all later calls keep
\* their previous values.
C29_EarlierCallsApplied ==
    [][(_update_model /\ SomeEntryNotNumeric) =>
          /\ \A name \in NodeFields : \A key \in NodeSet :
                AppliedUpToFailure(CallPosition, name, key)
          /\ \A name \in LineFields : \A key \in 1..n_lines :
                AppliedUpToFailure(CallPosition, name, key)]_vars

\* before any solve, a cycle has aborted on an entry that is not a number and
\* has left a value in the network that no initial network has
C29_Witness ==
    /\ SomeEntryNotNumeric
    /\ position = "idle"
    /\ display = "ERROR"
    /\ outcome = "none"
    /\ Network \notin Params


\* C30: in every result the PTDF column of the first node (the slack) is zero
\* on every line; and in every feasible result priced with the duals of the LP
\* the LMP of the first node is the energy price lambda, the dual of the
\* balance row, whatever the duals of the line limits are.
C30_SlackColumnZero ==
    Returned =>
        /\ \A l \in 1..Len(result.ptdf) : result.ptdf[l][1] = RZero
        /\ (result.feasible /\ "eqlin" \in DOMAIN solved.res) =>
              result.lmp[solved.net.nodes[1]] = solved.res.eqlin

\* a feasible result priced with the duals, with a binding line limit and a
\* node whose LMP differs from the energy price
C30_Witness ==
    /\ Feasible
    /\ "eqlin" \in DOMAIN solved.res
    /\ \E k \in 1..Len(solved.res.ineqlin) : solved.res.ineqlin[k] # RZero
    /\ \E nd \in SolvedNodes : result.lmp[nd] # solved.res.eqlin
    /\ result.lmp[solved.net.nodes[1]] = solved.res.eqlin

====
